---- MODULE Spec2Model ----
(***************************************************************************)
(* OrderedSet<T, Allocator, Cap> of src/src/generic/ot_orderedset.h: an    *)
(* index-addressable container made of a block store (_data), a free list  *)
(* of recycled indices (_recy) and a live count (_size).                   *)
(*                                                                         *)
(* Element pointers are modelled as addresses into heap (0 is nullptr); the*)
(* element behind an address is the value it was constructed with.  Array  *)
(* cells that malloc/realloc hand out and the code has not written yet     *)
(* hold UNINIT.  Iterator cursors are offsets into _data.block.            *)
(*                                                                         *)
(* Spec is the container's behaviour when every allocation succeeds.       *)
(***************************************************************************)
EXTENDS Integers, Sequences, FiniteSets

\* ---------------------------------------------------------------- bounds
\* Template parameter Cap (the source's default is 8; any Cap >= 1 compiles).
Cap == 2
\* The number of insert calls of one behaviour.
MaxInserts == 5

\* Constructor arguments of the elements.
Values == {1, 2}
\* Arguments of remove: every index that can be issued, and one that cannot.
RemoveArgs == 0..MaxInserts

\* size_t arithmetic wraps; the model's word is 16 bits wide.
SizeTMod == 2^16

\* nullptr, and the content of a cell no one has written yet.
NULL == 0
UNINIT == -1
\* heap cell of an element that was destroyed and deallocated (once, twice).
FREED == 0
DOUBLE_FREED == -1

VARIABLES
  _size,      \* size_t _size
  _data,      \* DataBlock _data: [block, size, cursor]
  _recy,      \* RecyBlock _recy: [block, size, cursor]
  heap,       \* the allocator's objects: heap[p] is the element at address p
  nCtor,      \* number of allocator()->construct calls
  nDtor,      \* number of allocator()->destroy calls
  nIns,       \* number of insert calls
  nRemHit,    \* number of remove calls whose slot was occupied at the call
  last,       \* the last insert/remove call: [op, arg, ret]
  handles,    \* handles issued by insert and not removed since: [idx, ptr, val]
  freed,      \* indices freed and not reissued since, oldest first
  peak,       \* the largest value size() has had since construction
  pc,         \* position of the client's iteration loop
  it,         \* the loop's Iterator: [cursor, end]
  out,        \* what the loop has dereferenced so far: <<offset, pointer>>
  incs,       \* number of operator++ calls of the loop
  fault,      \* how a call that did not return normally ended ("none" if none)
  wk          \* the worker threads of a read-only phase: [pc, it, out, got]

contVars == <<_size, _data, _recy, heap, nCtor, nDtor>>
histVars == <<nIns, nRemHit, last, handles, freed, peak>>
iterVars == <<pc, it, out, incs>>
auxVars == <<fault, wk>>
vars == <<_size, _data, _recy, heap, nCtor, nDtor,
          nIns, nRemHit, last, handles, freed, peak, pc, it, out, incs,
          fault, wk>>

\* ------------------------------------------------------------ C library
malloc(n) == [i \in 0..(n - 1) |-> UNINIT]

\* Faulty realloc: the grown array does not keep the old cells.
realloc_nocopy(block, old, new) == [i \in 0..(new - 1) |-> UNINIT]

realloc(block, old, new) ==
  [i \in 0..(new - 1) |-> IF i < old THEN block[i] ELSE UNINIT]

\* ------------------------------------------------------------ allocator
\* allocate(1): a fresh address.
allocate == Len(heap) + 1

\* construct(p, v) after allocate: the object at p holds v.
construct(p, v) == Append(heap, v)

\* destroy(p); deallocate(p, 1).
destroy(p) ==
  [heap EXCEPT ![p] = IF @ \in {FREED, DOUBLE_FREED} THEN DOUBLE_FREED ELSE FREED]

\* ------------------------------------------------------------ queries
num_indices == _data.cursor

size == _size

\* Faulty operator[]: the range check admits idx = num_indices().
operator_index_offbyone(idx) ==
  IF idx <= num_indices
  THEN [ret |-> _data.block[idx], reads |-> {idx}]
  ELSE [ret |-> NULL, reads |-> {}]

\* operator[] with the cells of _data.block it reads.
operator_index_eval(idx) ==
  IF idx < num_indices
  THEN [ret |-> _data.block[idx], reads |-> {idx}]
  ELSE [ret |-> NULL, reads |-> {}]

operator_index(idx) == operator_index_eval(idx).ret

\* ------------------------------------------------------------ Iterator
begin == [cursor |-> 0, end |-> _data.cursor]

end == [cursor |-> _data.cursor, end |-> _data.cursor]

RECURSIVE skip_null(_, _)
skip_null(c, e) ==
  IF c # e /\ _data.block[c] = NULL THEN skip_null(c + 1, e) ELSE c

\* Faulty operator++: the loop skips the occupied cells instead of the empty.
RECURSIVE skip_live(_, _)
skip_live(c, e) ==
  IF c # e /\ _data.block[c] # NULL THEN skip_live(c + 1, e) ELSE c

operator_inc_skiplive(i) ==
  [cursor |-> skip_live(i.cursor + 1, i.end), end |-> i.end]

operator_inc(i) == [cursor |-> skip_null(i.cursor + 1, i.end), end |-> i.end]

operator_deref(i) == _data.block[i.cursor]

operator_ne(a, b) == a.cursor # b.cursor

\* ------------------------------------------------------------ constructor
\* The worker threads of a read-only phase, and a worker that does nothing.
Workers == {1, 2}

\* What a worker holds as its last query before it made one.
NoRead == [op |-> "none", arg |-> 0, ret |-> 0]

WorkerIdle ==
  [pc   |-> "idle",
   it   |-> [cursor |-> 0, end |-> 0],
   out  |-> <<>>,
   got  |-> NoRead]

Init ==
  /\ _size = 0
  /\ _data = [block |-> malloc(Cap), size |-> Cap, cursor |-> 0]
  /\ _recy = [block |-> malloc(Cap), size |-> Cap, cursor |-> 0]
  /\ heap = <<>>
  /\ nCtor = 0
  /\ nDtor = 0
  /\ nIns = 0
  /\ nRemHit = 0
  /\ last = [op |-> "none", arg |-> 0, ret |-> 0]
  /\ handles = {}
  /\ freed = <<>>
  /\ peak = 0
  /\ pc = "idle"
  /\ it = [cursor |-> 0, end |-> 0]
  /\ out = <<>>
  /\ incs = 0
  /\ fault = "none"
  /\ wk = [w \in Workers |-> WorkerIdle]

\* ------------------------------------------------------------ remove
\* The tail of remove, after its check: destroy, clear the slot, recycle.
\* (Shared by the faulty variants of remove below.)
remove_tail(idx, clear, dec) ==
  LET full == _recy.cursor = _recy.size
      rsz  == IF full THEN (_recy.size * 2) % SizeTMod ELSE _recy.size
      blk  == IF full THEN realloc(_recy.block, _recy.size, rsz)
                      ELSE _recy.block
  IN /\ heap' = destroy(_data.block[idx])
     /\ nDtor' = nDtor + 1
     /\ _data' = IF clear THEN [_data EXCEPT !.block[idx] = NULL] ELSE _data
     /\ _size' = (_size - dec) % SizeTMod
     /\ _recy' = [block  |-> [blk EXCEPT ![_recy.cursor] = idx],
                  size   |-> rsz,
                  cursor |-> _recy.cursor + 1]
     /\ nCtor' = nCtor
     /\ last' = [op |-> "remove", arg |-> idx, ret |-> 0]

\* Faulty remove: checks the range of idx, not whether the slot is empty.
remove_boundsonly(idx) ==
  IF ~(idx < num_indices)
  THEN /\ UNCHANGED contVars
       /\ last' = [op |-> "remove", arg |-> idx, ret |-> 0]
  ELSE remove_tail(idx, TRUE, 1)

\* Faulty remove: --_size comes before the early return.
remove_decfirst(idx) ==
  IF operator_index(idx) = NULL
  THEN /\ _size' = (_size - 1) % SizeTMod
       /\ UNCHANGED <<_data, _recy, heap, nCtor, nDtor>>
       /\ last' = [op |-> "remove", arg |-> idx, ret |-> 0]
  ELSE remove_tail(idx, TRUE, 1)

\* Faulty remove: the slot is not set to nullptr.
remove_keepslot(idx) ==
  IF operator_index(idx) = NULL
  THEN /\ UNCHANGED contVars
       /\ last' = [op |-> "remove", arg |-> idx, ret |-> 0]
  ELSE remove_tail(idx, FALSE, 1)

\* Faulty remove: removing the last index takes _data.cursor back instead of
\* recycling the index.
remove_shrink(idx) ==
  IF operator_index(idx) = NULL
  THEN /\ UNCHANGED contVars
       /\ last' = [op |-> "remove", arg |-> idx, ret |-> 0]
  ELSE IF idx = _data.cursor - 1
       THEN /\ heap' = destroy(_data.block[idx])
            /\ nDtor' = nDtor + 1
            /\ _data' = [_data EXCEPT !.block[idx] = NULL, !.cursor = idx]
            /\ _size' = (_size - 1) % SizeTMod
            /\ UNCHANGED <<_recy, nCtor>>
            /\ last' = [op |-> "remove", arg |-> idx, ret |-> 0]
       ELSE remove_tail(idx, TRUE, 1)

\* Faulty remove: the free list grows only once the cursor is past its end.
remove_growlate(idx) ==
  IF operator_index(idx) = NULL
  THEN /\ UNCHANGED contVars
       /\ last' = [op |-> "remove", arg |-> idx, ret |-> 0]
  ELSE LET full == _recy.cursor > _recy.size
           rsz  == IF full THEN (_recy.size * 2) % SizeTMod ELSE _recy.size
           blk  == IF full THEN realloc(_recy.block, _recy.size, rsz)
                           ELSE _recy.block
       IN /\ heap' = destroy(_data.block[idx])
          /\ nDtor' = nDtor + 1
          /\ _data' = [_data EXCEPT !.block[idx] = NULL]
          /\ _size' = (_size - 1) % SizeTMod
          /\ _recy' = [block  |-> [blk EXCEPT ![_recy.cursor] = idx],
                       size   |-> rsz,
                       cursor |-> _recy.cursor + 1]
          /\ nCtor' = nCtor
          /\ last' = [op |-> "remove", arg |-> idx, ret |-> 0]

remove(idx) ==
  LET ptr == operator_index(idx) IN
  IF ptr = NULL
  THEN /\ UNCHANGED contVars
       /\ last' = [op |-> "remove", arg |-> idx, ret |-> 0]
  ELSE LET full == _recy.cursor = _recy.size
           rsz  == IF full THEN (_recy.size * 2) % SizeTMod ELSE _recy.size
           blk  == IF full THEN realloc(_recy.block, _recy.size, rsz)
                           ELSE _recy.block
       IN /\ heap' = destroy(_data.block[idx])
          /\ nDtor' = nDtor + 1
          /\ _data' = [_data EXCEPT !.block[idx] = NULL]
          /\ _size' = (_size - 1) % SizeTMod
          /\ _recy' = [block  |-> [blk EXCEPT ![_recy.cursor] = idx],
                       size   |-> rsz,
                       cursor |-> _recy.cursor + 1]
          /\ nCtor' = nCtor
          /\ last' = [op |-> "remove", arg |-> idx, ret |-> 0]

\* ------------------------------------------------------------ insert
\* The faulty variants of insert below differ from insert in one place each:
\*   keep  the free-list cursor is not decremented by a pop,
\*   fifo  a pop takes the oldest recycled index, _recy.block[0],
\*   stay  a fresh index does not advance _data.cursor,
\*   cnt   ++_size happens only when the index is fresh.
insert_variant(v, keep, fifo, stay, cnt) ==
  LET pop  == _recy.cursor # 0
      rc   == IF pop /\ ~keep THEN _recy.cursor - 1 ELSE _recy.cursor
      grow == ~pop /\ _data.cursor = _data.size
      dsz  == IF grow THEN (_data.size * 2) % SizeTMod ELSE _data.size
      blk  == IF grow THEN realloc(_data.block, _data.size, dsz)
                      ELSE _data.block
      idx  == IF pop THEN (IF fifo THEN _recy.block[0]
                                   ELSE _recy.block[_recy.cursor - 1])
                     ELSE _data.cursor
      dc   == IF pop \/ stay THEN _data.cursor ELSE _data.cursor + 1
      p    == allocate
  IN /\ _recy' = [_recy EXCEPT !.cursor = rc]
     /\ _size' = IF pop /\ cnt THEN _size ELSE (_size + 1) % SizeTMod
     /\ _data' = [block  |-> [blk EXCEPT ![idx] = p],
                  size   |-> dsz,
                  cursor |-> dc]
     /\ heap' = construct(p, v)
     /\ nCtor' = nCtor + 1
     /\ nDtor' = nDtor
     /\ last' = [op |-> "insert", arg |-> v, ret |-> idx]

insert_nopop(v) == insert_variant(v, TRUE, FALSE, FALSE, FALSE)

insert_fifo(v) == insert_variant(v, FALSE, TRUE, FALSE, FALSE)

insert_nobump(v) == insert_variant(v, FALSE, FALSE, TRUE, FALSE)

insert_sizefresh(v) == insert_variant(v, FALSE, FALSE, FALSE, TRUE)

\* Faulty insert: the block store doubles one insert early, when the fresh
\* index is the last cell.
insert_growearly(v) ==
  LET pop  == _recy.cursor # 0
      rc   == IF pop THEN _recy.cursor - 1 ELSE _recy.cursor
      grow == ~pop /\ _data.cursor + 1 = _data.size
      dsz  == IF grow THEN (_data.size * 2) % SizeTMod ELSE _data.size
      blk  == IF grow THEN realloc(_data.block, _data.size, dsz)
                      ELSE _data.block
      idx  == IF pop THEN _recy.block[rc] ELSE _data.cursor
      dc   == IF pop THEN _data.cursor ELSE _data.cursor + 1
      p    == allocate
  IN /\ _recy' = [_recy EXCEPT !.cursor = rc]
     /\ _size' = (_size + 1) % SizeTMod
     /\ _data' = [block  |-> [blk EXCEPT ![idx] = p],
                  size   |-> dsz,
                  cursor |-> dc]
     /\ heap' = construct(p, v)
     /\ nCtor' = nCtor + 1
     /\ nDtor' = nDtor
     /\ last' = [op |-> "insert", arg |-> v, ret |-> idx]

\* Faulty insert: an index is recycled only when the block store is full.
insert_preferfresh(v) ==
  LET pop  == _recy.cursor # 0 /\ _data.cursor = _data.size
      rc   == IF pop THEN _recy.cursor - 1 ELSE _recy.cursor
      grow == ~pop /\ _data.cursor = _data.size
      dsz  == IF grow THEN (_data.size * 2) % SizeTMod ELSE _data.size
      blk  == IF grow THEN realloc(_data.block, _data.size, dsz)
                      ELSE _data.block
      idx  == IF pop THEN _recy.block[rc] ELSE _data.cursor
      dc   == IF pop THEN _data.cursor ELSE _data.cursor + 1
      p    == allocate
  IN /\ _recy' = [_recy EXCEPT !.cursor = rc]
     /\ _size' = (_size + 1) % SizeTMod
     /\ _data' = [block  |-> [blk EXCEPT ![idx] = p],
                  size   |-> dsz,
                  cursor |-> dc]
     /\ heap' = construct(p, v)
     /\ nCtor' = nCtor + 1
     /\ nDtor' = nDtor
     /\ last' = [op |-> "insert", arg |-> v, ret |-> idx]

insert(v) ==
  LET pop  == _recy.cursor # 0
      rc   == IF pop THEN _recy.cursor - 1 ELSE _recy.cursor
      grow == ~pop /\ _data.cursor = _data.size
      dsz  == IF grow THEN (_data.size * 2) % SizeTMod ELSE _data.size
      blk  == IF grow THEN realloc(_data.block, _data.size, dsz)
                      ELSE _data.block
      idx  == IF pop THEN _recy.block[rc] ELSE _data.cursor
      dc   == IF pop THEN _data.cursor ELSE _data.cursor + 1
      p    == allocate
  IN /\ _recy' = [_recy EXCEPT !.cursor = rc]
     /\ _size' = (_size + 1) % SizeTMod
     /\ _data' = [block  |-> [blk EXCEPT ![idx] = p],
                  size   |-> dsz,
                  cursor |-> dc]
     /\ heap' = construct(p, v)
     /\ nCtor' = nCtor + 1
     /\ nDtor' = nDtor
     /\ last' = [op |-> "insert", arg |-> v, ret |-> idx]

\* ------------------------------------------------------------ the client
\* One insert call, and what the caller now holds.
Insert ==
  /\ pc = "idle"
  /\ nIns < MaxInserts
  /\ \E v \in Values : insert(v)
  /\ nIns' = nIns + 1
  /\ nRemHit' = nRemHit
  /\ handles' = handles \cup
       {[idx |-> last'.ret, ptr |-> _data'.block[last'.ret], val |-> last'.arg]}
  /\ freed' = SelectSeq(freed, LAMBDA j : j # last'.ret)
  /\ peak' = IF size' > peak THEN size' ELSE peak
  /\ UNCHANGED <<iterVars, auxVars>>

\* One remove call, of any index.  Whether it targeted an occupied slot is
\* read off the state before the call, not off the branch remove took.
Remove ==
  /\ pc = "idle"
  /\ \E idx \in RemoveArgs :
       /\ remove(idx)
       /\ LET hit == idx < _data.cursor /\ _data.block[idx] # NULL
          IN /\ nRemHit' = IF hit THEN nRemHit + 1 ELSE nRemHit
             /\ handles' = IF hit THEN {h \in handles : h.idx # idx} ELSE handles
             /\ freed' = IF hit THEN Append(freed, idx) ELSE freed
  /\ nIns' = nIns
  /\ peak' = peak
  /\ UNCHANGED <<iterVars, auxVars>>

\* for (auto i = begin(); i != end(); ++i) use(*i);
IterBegin ==
  /\ pc = "idle"
  /\ it' = begin
  /\ out' = <<>>
  /\ incs' = 0
  /\ pc' = "test"
  /\ UNCHANGED <<contVars, histVars, auxVars>>

IterTest ==
  /\ pc = "test"
  /\ pc' = IF operator_ne(it, end) THEN "body" ELSE "done"
  /\ UNCHANGED <<contVars, histVars, auxVars, it, out, incs>>

IterDeref ==
  /\ pc = "body"
  /\ out' = Append(out, <<it.cursor, operator_deref(it)>>)
  /\ pc' = "incr"
  /\ UNCHANGED <<contVars, histVars, auxVars, it, incs>>

IterInc ==
  /\ pc = "incr"
  /\ it' = operator_inc(it)
  /\ incs' = incs + 1
  /\ pc' = "test"
  /\ UNCHANGED <<contVars, histVars, auxVars, out>>

IterEnd ==
  /\ pc = "done"
  /\ pc' = "idle"
  /\ it' = [cursor |-> 0, end |-> 0]
  /\ out' = <<>>
  /\ incs' = 0
  /\ UNCHANGED <<contVars, histVars, auxVars>>

Next ==
  \/ Insert
  \/ Remove
  \/ IterBegin
  \/ IterTest
  \/ IterDeref
  \/ IterInc
  \/ IterEnd

Spec == Init /\ [][Next]_vars

\* ------------------------------------------------------------ destructor
\* destroy(p); deallocate(p, 1) on the objects h.
destroy_at(h, p) ==
  [h EXCEPT ![p] = IF @ \in {FREED, DOUBLE_FREED} THEN DOUBLE_FREED ELSE FREED]

\* for(size_t i = from; i < n; ++i) if(_data.block[i] != nullptr) destroy ...
RECURSIVE destroy_loop(_, _, _)
destroy_loop(h, i, n) ==
  IF i >= n
  THEN h
  ELSE destroy_loop(IF _data.block[i] # NULL
                    THEN destroy_at(h, _data.block[i])
                    ELSE h,
                    i + 1, n)

\* free(block): the array is gone.
free(block) == malloc(0)

\* The destructor with its loop running over the first n slots.
destructor_upto(n) ==
  /\ heap' = destroy_loop(heap, 0, n)
  /\ nDtor' = nDtor + Cardinality({i \in 0..(n - 1) : _data.block[i] # NULL})
  /\ _data' = [_data EXCEPT !.block = free(_data.block)]
  /\ _recy' = [_recy EXCEPT !.block = free(_recy.block)]
  /\ UNCHANGED <<_size, nCtor>>

\* Faulty destructor: the loop runs over size() slots, not num_indices().
destructor_upto_size == destructor_upto(_size)

destructor == destructor_upto(_data.cursor)

\* The container goes out of scope; the handles the client held are kept to
\* tell which elements were live at that moment.
Destroy ==
  /\ pc = "idle"
  /\ destructor
  /\ pc' = "destroyed"
  /\ UNCHANGED <<histVars, it, out, incs, auxVars>>

NextDtor ==
  \/ Next
  \/ Destroy

SpecDtor == Init /\ [][NextDtor]_vars

\* ------------------------------------------------------------ failures
\* heap cell of storage that allocate returned and no constructor completed.
RAW == -2

\* insert when allocator()->allocate(1) throws (at = "allocate") or the
\* element's constructor throws (at = "construct").  The index was taken and
\* ++_size done before; the slot is assigned between the two.
insert_throws(v, at) ==
  LET pop  == _recy.cursor # 0
      rc   == IF pop THEN _recy.cursor - 1 ELSE _recy.cursor
      grow == ~pop /\ _data.cursor = _data.size
      dsz  == IF grow THEN (_data.size * 2) % SizeTMod ELSE _data.size
      blk  == IF grow THEN realloc(_data.block, _data.size, dsz)
                      ELSE _data.block
      idx  == IF pop THEN _recy.block[rc] ELSE _data.cursor
      dc   == IF pop THEN _data.cursor ELSE _data.cursor + 1
      p    == allocate
  IN /\ _recy' = [_recy EXCEPT !.cursor = rc]
     /\ _size' = (_size + 1) % SizeTMod
     /\ _data' = [block  |-> IF at = "construct" THEN [blk EXCEPT ![idx] = p]
                                                 ELSE blk,
                  size   |-> dsz,
                  cursor |-> dc]
     /\ heap' = IF at = "construct" THEN Append(heap, RAW) ELSE heap
     /\ UNCHANGED <<nCtor, nDtor>>
     /\ last' = [op |-> "insert", arg |-> v, ret |-> idx]
     /\ fault' = IF at = "construct" THEN "ctor_throw" ELSE "bad_alloc"

\* insert when the realloc of the block store returns a null pointer:
\* _data.size is already doubled, _data.block becomes null (no cell held),
\* and the slot is then written through the null pointer.  That store is
\* undefined: the process dies at it (how = "realloc_segv", allocate has
\* returned, nothing is constructed) or it lands somewhere and the call
\* runs to its end (how = "realloc_wild_write").
insert_realloc_null(v, how) ==
  /\ _recy.cursor = 0
  /\ _data.cursor = _data.size
  /\ _recy' = _recy
  /\ _size' = (_size + 1) % SizeTMod
  /\ _data' = [block  |-> malloc(0),
               size   |-> (_data.size * 2) % SizeTMod,
               cursor |-> _data.cursor + 1]
  /\ heap' = IF how = "realloc_segv" THEN Append(heap, RAW) ELSE Append(heap, v)
  /\ nCtor' = IF how = "realloc_segv" THEN nCtor ELSE nCtor + 1
  /\ nDtor' = nDtor
  /\ last' = [op |-> "insert", arg |-> v, ret |-> _data.cursor]
  /\ fault' = how

\* remove when the realloc of the free list returns a null pointer: the
\* element is destroyed and the slot cleared, _recy.size is doubled,
\* _recy.block becomes null, and idx is stored through the null pointer.
remove_realloc_null(idx, how) ==
  /\ operator_index(idx) # NULL
  /\ _recy.cursor = _recy.size
  /\ heap' = destroy(_data.block[idx])
  /\ nDtor' = nDtor + 1
  /\ _data' = [_data EXCEPT !.block[idx] = NULL]
  /\ _size' = (_size - 1) % SizeTMod
  /\ _recy' = [block  |-> malloc(0),
               size   |-> (_recy.size * 2) % SizeTMod,
               cursor |-> IF how = "realloc_segv" THEN _recy.cursor
                                                  ELSE _recy.cursor + 1]
  /\ nCtor' = nCtor
  /\ last' = [op |-> "remove", arg |-> idx, ret |-> 0]
  /\ fault' = how

\* The ways a store through a null array pointer can end.
NullStoreOutcomes == {"realloc_segv", "realloc_wild_write"}

\* What the client records of a call that failed.
FailedCall(inserted) ==
  /\ pc' = "failed"
  /\ nIns' = IF inserted THEN nIns + 1 ELSE nIns
  /\ UNCHANGED <<nRemHit, handles, freed, peak, it, out, incs, wk>>

InsertAllocateThrows ==
  /\ pc = "idle"
  /\ nIns < MaxInserts
  /\ \E v \in Values : insert_throws(v, "allocate")
  /\ FailedCall(TRUE)

InsertConstructThrows ==
  /\ pc = "idle"
  /\ nIns < MaxInserts
  /\ \E v \in Values : insert_throws(v, "construct")
  /\ FailedCall(TRUE)

InsertReallocFails ==
  /\ pc = "idle"
  /\ nIns < MaxInserts
  /\ \E v \in Values, how \in NullStoreOutcomes : insert_realloc_null(v, how)
  /\ FailedCall(TRUE)

RemoveReallocFails ==
  /\ pc = "idle"
  /\ \E idx \in RemoveArgs, how \in NullStoreOutcomes :
       remove_realloc_null(idx, how)
  /\ FailedCall(FALSE)

NextFail ==
  \/ Next
  \/ InsertAllocateThrows
  \/ InsertConstructThrows
  \/ InsertReallocFails
  \/ RemoveReallocFails

SpecFail == Init /\ [][NextFail]_vars

\* ------------------------------------------------------------ readers
\* The number of insert calls of the build phase before a read-only phase.
MaxBuild == 3

\* Arguments of the workers' lookups.
LookupArgs == 0..MaxBuild

BuildInsert ==
  /\ nIns < MaxBuild
  /\ Insert

BuildRemove ==
  /\ nIns <= MaxBuild
  /\ Remove

\* The single-threaded build phase ends; from here on only reads happen.
Freeze ==
  /\ pc = "idle"
  /\ pc' = "readonly"
  /\ UNCHANGED <<contVars, histVars, it, out, incs, auxVars>>

\* A worker step: the worker's record changes, nothing else does.
WorkerStep(w, rec) ==
  /\ pc = "readonly"
  /\ wk' = [wk EXCEPT ![w] = rec]
  /\ UNCHANGED <<contVars, histVars, iterVars, fault>>

\* Faulty operator[]: an index at or beyond num_indices() (and below the
\* capacity) is made an index of the set, as a map's operator[] would.
WLookup_autoextend(w) ==
  /\ pc = "readonly"
  /\ wk[w].pc = "idle"
  /\ \E idx \in LookupArgs :
       /\ wk' = [wk EXCEPT ![w].got =
                   [op |-> "lookup", arg |-> idx, ret |-> operator_index(idx)]]
       /\ _data' = IF idx >= _data.cursor /\ idx < _data.size
                   THEN [_data EXCEPT !.cursor = idx + 1, !.block[idx] = NULL]
                   ELSE _data
  /\ UNCHANGED <<_size, _recy, heap, nCtor, nDtor, histVars, iterVars, fault>>

\* set[idx]
WLookup(w) ==
  /\ wk[w].pc = "idle"
  /\ \E idx \in LookupArgs :
       WorkerStep(w, [wk[w] EXCEPT !.got =
         [op |-> "lookup", arg |-> idx, ret |-> operator_index(idx)]])

\* set.size()
WSize(w) ==
  /\ wk[w].pc = "idle"
  /\ WorkerStep(w, [wk[w] EXCEPT !.got =
        [op |-> "size", arg |-> 0, ret |-> size]])

\* set.num_indices()
WNumIndices(w) ==
  /\ wk[w].pc = "idle"
  /\ WorkerStep(w, [wk[w] EXCEPT !.got =
        [op |-> "num_indices", arg |-> 0, ret |-> num_indices]])

\* for (auto i = set.begin(); i != set.end(); ++i) use(*i);
WIterBegin(w) ==
  /\ wk[w].pc = "idle"
  /\ WorkerStep(w, [wk[w] EXCEPT !.pc = "test", !.it = begin, !.out = <<>>,
                                 !.got = NoRead])

WIterTest(w) ==
  /\ wk[w].pc = "test"
  /\ WorkerStep(w, [wk[w] EXCEPT !.pc =
        IF operator_ne(wk[w].it, end) THEN "body" ELSE "done"])

WIterDeref(w) ==
  /\ wk[w].pc = "body"
  /\ WorkerStep(w, [wk[w] EXCEPT !.pc = "incr", !.out =
        Append(@, <<wk[w].it.cursor, operator_deref(wk[w].it)>>)])

WIterInc(w) ==
  /\ wk[w].pc = "incr"
  /\ WorkerStep(w, [wk[w] EXCEPT !.pc = "test", !.it = operator_inc(@)])

WIterEnd(w) ==
  /\ wk[w].pc = "done"
  /\ WorkerStep(w, [wk[w] EXCEPT !.pc = "idle", !.out = <<>>,
                                 !.it = [cursor |-> 0, end |-> 0]])

NextRead ==
  \/ BuildInsert
  \/ BuildRemove
  \/ Freeze
  \/ \E w \in Workers : WLookup(w)
  \/ \E w \in Workers : WSize(w)
  \/ \E w \in Workers : WNumIndices(w)
  \/ \E w \in Workers : WIterBegin(w)
  \/ \E w \in Workers : WIterTest(w)
  \/ \E w \in Workers : WIterDeref(w)
  \/ \E w \in Workers : WIterInc(w)
  \/ \E w \in Workers : WIterEnd(w)

SpecRead == Init /\ [][NextRead]_vars

\* The sequence one loop over the set yields when it runs alone in the
\* current state.
RECURSIVE iterate(_, _)
iterate(i, acc) ==
  IF operator_ne(i, end)
  THEN iterate(operator_inc(i), Append(acc, <<i.cursor, operator_deref(i)>>))
  ELSE acc

SoloIteration == iterate(begin, <<>>)

\* ------------------------------------------------------------ vocabulary
\* The indices below num_indices().
Indices == 0..(num_indices - 1)

\* Slot i holds an element.
Occupied(i) == _data.block[i] # NULL

\* The free list: _recy.block[0 .. _recy.cursor - 1].
FreeList == [k \in 1.._recy.cursor |-> _recy.block[k - 1]]

\* How often index i appears in the free list.
FreeCount(i) == Cardinality({k \in 1.._recy.cursor : FreeList[k] = i})

\* The step is a call of insert.
InsertCall == nIns' = nIns + 1

\* The step is a call of remove(idx).
RemoveCall(idx) ==
  /\ pc = "idle"
  /\ pc' = "idle"
  /\ nIns' = nIns
  /\ last' = [op |-> "remove", arg |-> idx, ret |-> 0]

\* ================================================================ claims

\* C1: after every sequence of insert and remove calls, each index below
\* num_indices() is either occupied and absent from the free list, or empty
\* and exactly once in the free list _recy.block[0 .. _recy.cursor - 1].
C1_SlotOccupiedXorFree ==
  \A i \in Indices :
    \/ Occupied(i) /\ FreeCount(i) = 0
    \/ ~Occupied(i) /\ FreeCount(i) = 1

\* Two indices wait in the free list, one element is live, and some index
\* has already been issued a second time.
C1_Witness ==
  /\ _recy.cursor >= 2
  /\ _size >= 1
  /\ nIns > num_indices

\* C2: size() equals the number of indices below num_indices() whose slot is
\* occupied.
C2_SizeCountsOccupied ==
  size = Cardinality({i \in Indices : Occupied(i)})

\* The block store has grown, two elements are live and a hole lies below
\* num_indices().
C2_Witness ==
  /\ _data.size > Cap
  /\ _size >= 2
  /\ \E i \in Indices : ~Occupied(i)

\* C3: size() equals the number of insert calls minus the number of remove
\* calls that targeted a slot occupied at the call; as nRemHit never exceeds
\* nIns here, _size has not wrapped below zero.
C3_SizeIsInsertsMinusHits ==
  /\ nRemHit <= nIns
  /\ size = nIns - nRemHit

\* Everything was removed again, and the last call was a remove that did
\* not target an occupied slot (out of range or already empty).
C3_Witness ==
  /\ nIns >= 2
  /\ nRemHit = nIns
  /\ _size = 0
  /\ last.op = "remove"
  /\ (Len(freed) = 0 \/ freed[Len(freed)] # last.arg)

\* C4: a handle that insert returned for value v and that was not removed
\* since still looks up the same element, holding v, whatever was inserted,
\* removed or grown in between.
C4_HandleKeepsValue ==
  \A h \in handles :
    /\ operator_index(h.idx) = h.ptr
    /\ h.ptr \in 1..Len(heap)
    /\ heap[h.ptr] = h.val

\* The first element ever inserted is still live after the block store and
\* the free list have both grown.
C4_Witness ==
  /\ _data.size > Cap
  /\ _recy.size > Cap
  /\ \E h \in handles : h.ptr = 1

\* C5: remove(i) of a live index makes lookup(i) absent, and lookup(i) of a
\* removed index stays absent over every step except an insert that returns
\* i, after which it yields the element just inserted.
C5_RemovedUntilReissued ==
  [][\A i \in RemoveArgs :
       /\ (RemoveCall(i) /\ operator_index(i) # NULL)
            => operator_index(i)' = NULL
       /\ (i < num_indices /\ operator_index(i) = NULL)
            => \/ operator_index(i)' = NULL
               \/ /\ InsertCall
                  /\ last'.ret = i
                  /\ operator_index(i)' \in 1..Len(heap')
                  /\ operator_index(i)' \notin 1..Len(heap)
                  /\ heap'[operator_index(i)'] = last'.arg
    ]_vars

\* An index was removed and issued again: its lookup yields an element
\* constructed after the first one, by the last insert call.
C5_Witness ==
  /\ last.op = "insert"
  /\ nRemHit >= 1
  /\ last.ret < num_indices - 1
  /\ operator_index(last.ret) = Len(heap)
  /\ heap[Len(heap)] = last.arg

\* C6: with a non-empty free list insert returns the index freed most
\* recently among those not reissued, and leaves num_indices() and the block
\* store's capacity alone; with an empty free list it returns the old
\* num_indices() and raises num_indices() by one.
C6_InsertIndexSelection ==
  [][InsertCall =>
       IF _recy.cursor # 0
       THEN /\ Len(freed) > 0
            /\ last'.ret = freed[Len(freed)]
            /\ num_indices' = num_indices
            /\ _data'.size = _data.size
       ELSE /\ last'.ret = num_indices
            /\ num_indices' = num_indices + 1
    ]_vars

\* The last insert reused an index while an older freed index still waits.
C6_Witness ==
  /\ last.op = "insert"
  /\ last.ret < num_indices - 1
  /\ operator_index(last.ret) = Len(heap)
  /\ Len(freed) >= 1
  /\ _data.size = Cap

\* C7: the index insert returns named no live element just before the call
\* (lookup absent, no outstanding handle), and is not in the free list just
\* after it.
C7_InsertReturnsVacantIndex ==
  [][InsertCall =>
       /\ operator_index(last'.ret) = NULL
       /\ \A h \in handles : h.idx # last'.ret
       /\ \A k \in 1.._recy'.cursor : _recy'.block[k - 1] # last'.ret
    ]_vars

\* The last insert took an index out of a free list that still holds other
\* indices, next to live elements.
C7_Witness ==
  /\ last.op = "insert"
  /\ last.ret < num_indices - 1
  /\ operator_index(last.ret) = Len(heap)
  /\ _recy.cursor >= 1
  /\ _size >= 2

\* C8: a full iteration from begin() to end() never yields an empty slot:
\* every value it dereferences is a live element, and it yields size() values.
C8_IterationYieldsOnlyLive ==
  pc = "done" =>
    /\ \A k \in 1..Len(out) :
         /\ out[k][2] # NULL
         /\ out[k][2] \in 1..Len(heap)
         /\ heap[out[k][2]] \in Values
    /\ Len(out) = size

\* C9: a full iteration from begin() to end() yields every live element
\* exactly once, at strictly ascending offsets, and the loop has made at most
\* num_indices() increments.
C9_IterationVisitsLiveAscending ==
  /\ incs <= num_indices
  /\ pc = "done" =>
       /\ \A i \in Indices :
            Occupied(i) =>
              /\ Cardinality({k \in 1..Len(out) : out[k][1] = i}) = 1
              /\ \A k \in 1..Len(out) :
                   out[k][1] = i => out[k][2] = _data.block[i]
       /\ \A k \in 1..(Len(out) - 1) : out[k][1] < out[k + 1][1]

\* A finished iteration over a store with a hole between two live elements.
C9_Witness ==
  /\ pc = "done"
  /\ Len(out) >= 2
  /\ \E i, j, k \in Indices :
       /\ i < j
       /\ j < k
       /\ Occupied(i)
       /\ ~Occupied(j)
       /\ Occupied(k)

\* C10: remove(idx) with idx >= num_indices(), or with idx naming an empty
\* slot, changes nothing: size(), num_indices(), the slots, the free list,
\* both capacities, the elements and the destroy count stay as they were.
C10_RemoveAbsentIsNoOp ==
  [][\A idx \in RemoveArgs :
       (RemoveCall(idx) /\ (idx >= num_indices \/ _data.block[idx] = NULL))
         => /\ _size' = _size
            /\ _data' = _data
            /\ _recy' = _recy
            /\ heap' = heap
            /\ nCtor' = nCtor
            /\ nDtor' = nDtor
    ]_vars

\* The last call removed an index that was already in the free list, below
\* its top: a second remove of the same index.
C10_Witness ==
  /\ last.op = "remove"
  /\ last.arg < num_indices
  /\ _recy.cursor >= 2
  /\ FreeCount(last.arg) = 1
  /\ FreeList[_recy.cursor] # last.arg

\* C11: in every reachable state lookup of any index is absent exactly when
\* the index is >= num_indices() or its slot is empty, and otherwise is the
\* live element of that slot (the one its outstanding handle names); it
\* reads no cell at or beyond num_indices().
C11_LookupAbsentIffOutOrEmpty ==
  \A idx \in RemoveArgs :
    LET e == operator_index_eval(idx) IN
    /\ (e.ret = NULL) <=> (idx >= num_indices \/ _data.block[idx] = NULL)
    /\ (e.ret = NULL) <=> ~(\E h \in handles : h.idx = idx)
    /\ e.ret # NULL =>
         \E h \in handles :
           /\ h.idx = idx
           /\ h.ptr = e.ret
           /\ e.ret \in 1..Len(heap)
           /\ heap[e.ret] = h.val
    /\ \A c \in e.reads : c < num_indices

\* A full block store with a live element and a hole: lookups of a live
\* index, of an empty slot and of num_indices() = capacity all occur.
C11_Witness ==
  /\ num_indices = _data.size
  /\ _data.size > Cap
  /\ \E i, j \in Indices : Occupied(i) /\ ~Occupied(j)

\* C12: num_indices() never decreases over any step, and a remove call
\* never changes it.
C12_NumIndicesMonotone ==
  [][/\ num_indices' >= num_indices
     /\ \A idx \in RemoveArgs : RemoveCall(idx) => num_indices' = num_indices
    ]_vars

\* The last call removed the highest index issued, and num_indices() still
\* counts it.
C12_Witness ==
  /\ last.op = "remove"
  /\ num_indices >= 3
  /\ last.arg = num_indices - 1
  /\ ~Occupied(last.arg)
  /\ FreeList[_recy.cursor] = last.arg

\* C13: constructions minus destructions equal size(); every destruction
\* hit a different, constructed element (none was destroyed twice); once
\* every insert was matched by a remove, constructions equal destructions
\* and size() is 0.
C13_ConstructDestroyBalance ==
  /\ nCtor - nDtor = size
  /\ \A p \in 1..Len(heap) : heap[p] # DOUBLE_FREED
  /\ Cardinality({p \in 1..Len(heap) : heap[p] = FREED}) = nDtor
  /\ Len(heap) = nCtor
  /\ nRemHit = nIns => (nCtor = nDtor /\ size = 0)

\* Three or more inserts, each matched by a remove of the returned index.
C13_Witness ==
  /\ nIns >= 3
  /\ nRemHit = nIns
  /\ nCtor = nIns
  /\ nDtor = nIns

\* C15: from an empty container, the first Cap inserts return 0 .. Cap-1 and
\* leave the capacity at Cap; after Cap inserts and the removal of one index
\* k, the next insert returns k with capacity and num_indices() still Cap;
\* the insert after that doubles the capacity to 2 * Cap, returns Cap and
\* leaves size() = num_indices() = Cap + 1.
C15_GrowthScenario ==
  [][InsertCall =>
       /\ (nRemHit = 0 /\ nIns < Cap)
            => /\ last'.ret = nIns
               /\ _data'.size = Cap
               /\ num_indices' = nIns + 1
       /\ (nIns = Cap /\ nRemHit = 1 /\ num_indices = Cap /\ Len(freed) = 1)
            => /\ last'.ret = freed[1]
               /\ _data'.size = Cap
               /\ num_indices' = Cap
               /\ size' = Cap
       /\ (nIns = Cap + 1 /\ nRemHit = 1 /\ num_indices = Cap /\ size = Cap)
            => /\ _data.size = Cap
               /\ _data'.size = 2 * Cap
               /\ last'.ret = Cap
               /\ size' = Cap + 1
               /\ num_indices' = Cap + 1
    ]_vars

\* The end of the scenario: Cap inserts, one remove, the reuse, and the
\* insert that doubled the block store.
C15_Witness ==
  /\ nIns = Cap + 2
  /\ nRemHit = 1
  /\ last.op = "insert"
  /\ last.ret = Cap
  /\ _data.size = 2 * Cap
  /\ size = Cap + 1
  /\ num_indices = Cap + 1

\* n is Cap times a power of two.
IsCapTimesPowerOfTwo(n) == \E k \in 0..MaxInserts : n = Cap * (2 ^ k)

\* C20: both cursors stay within their capacities, both capacities are Cap
\* times a power of two, a step doubles a capacity at most once, and the
\* slot insert writes and the free-list cell remove writes lie below the
\* capacity of their array at the time of the write.
C20_StorageBounds ==
  [][/\ _data.cursor <= _data.size
     /\ _recy.cursor <= _recy.size
     /\ _data'.cursor <= _data'.size
     /\ _recy'.cursor <= _recy'.size
     /\ IsCapTimesPowerOfTwo(_data'.size)
     /\ IsCapTimesPowerOfTwo(_recy'.size)
     /\ _data'.size \in {_data.size, 2 * _data.size}
     /\ _recy'.size \in {_recy.size, 2 * _recy.size}
     /\ DOMAIN _data'.block = 0..(_data'.size - 1)
     /\ DOMAIN _recy'.block = 0..(_recy'.size - 1)
     /\ InsertCall => (last'.ret >= 0 /\ last'.ret < _data'.size)
     /\ \A idx \in RemoveArgs :
          (RemoveCall(idx) /\ operator_index(idx) # NULL)
            => (_recy.cursor < _recy'.size /\ _recy'.cursor = _recy.cursor + 1)
    ]_vars

\* The block store has doubled twice and the free list once, and the free
\* list holds more indices than its first capacity.
C20_Witness ==
  /\ _data.size = 4 * Cap
  /\ _recy.size = 2 * Cap
  /\ _recy.cursor > Cap

\* C19: num_indices() equals the largest value size() has had since
\* construction; insert extends the block store only when every slot below
\* num_indices() is occupied, and every index it returns is smaller than
\* that peak.
C19_IndexDensity ==
  [][/\ num_indices = peak
     /\ num_indices' = peak'
     /\ InsertCall =>
          /\ last'.ret < peak'
          /\ num_indices' > num_indices =>
               /\ size = num_indices
               /\ \A i \in Indices : Occupied(i)
    ]_vars

\* Churn: more inserts than the peak of live elements, and fewer live
\* elements now than at the peak.
C19_Witness ==
  /\ peak >= 2
  /\ nIns >= peak + 2
  /\ size < peak
  /\ num_indices = peak

\* C14: once the container is destroyed, every element that was live at
\* that moment is destroyed, every element ever constructed is destroyed
\* exactly once (none twice, none left), the destructions number the
\* constructions, and both arrays are released.
C14_DestructorDestroysLiveOnce ==
  pc = "destroyed" =>
    /\ \A h \in handles : heap[h.ptr] = FREED
    /\ \A p \in 1..Len(heap) : heap[p] = FREED
    /\ nDtor = nCtor
    /\ nDtor = nRemHit + Cardinality(handles)
    /\ DOMAIN _data.block = {}
    /\ DOMAIN _recy.block = {}

\* A container destroyed while two elements were live above a hole.
C14_Witness ==
  /\ pc = "destroyed"
  /\ Len(freed) >= 1
  /\ Cardinality(handles) >= 2
  /\ \A h \in handles : h.idx > freed[1]

\* C16: if allocate or the constructor raises during insert, the container
\* is not left in a partial state: size() is the number of occupied slots,
\* and every index below num_indices() is occupied by a fully constructed
\* element or is empty and recorded in the free list.
C16_InsertFailureLeavesNoPartialState ==
  fault \in {"bad_alloc", "ctor_throw"} =>
    /\ size = Cardinality({i \in Indices : Occupied(i)})
    /\ \A i \in Indices :
         \/ /\ _data.block[i] \in 1..Len(heap)
            /\ heap[_data.block[i]] \in Values
         \/ /\ _data.block[i] = NULL
            /\ FreeCount(i) = 1

\* C17: if a realloc of the block store or of the free list fails, the
\* failure reaches the caller as an error (not as a store through the null
\* pointer), and the recorded capacities are the numbers of cells held.
C17_GrowthFailureIsSurfaced ==
  fault \notin {"none", "bad_alloc", "ctor_throw"} =>
    /\ fault = "realloc_error"
    /\ _data.size = Cardinality(DOMAIN _data.block)
    /\ _recy.size = Cardinality(DOMAIN _recy.block)

\* C18: in the read-only phase every step of every worker (lookup, size(),
\* num_indices(), an iteration step) leaves the container as it was, every
\* read yields what it yields when run alone in that state, and every
\* finished iteration yields the one sequence a lone loop over that state
\* yields (so any two full iterations yield the same sequence).
C18_ReadsDoNotInterfere ==
  [][pc = "readonly" =>
       /\ _size' = _size
       /\ _data' = _data
       /\ _recy' = _recy
       /\ heap' = heap
       /\ \A w \in Workers :
            /\ wk'[w].got.op = "lookup"
                 => wk'[w].got.ret = operator_index(wk'[w].got.arg)
            /\ wk'[w].got.op = "size" => wk'[w].got.ret = Cardinality(handles)
            /\ wk'[w].got.op = "num_indices" => wk'[w].got.ret = peak
            /\ wk'[w].pc = "done" => wk'[w].out = SoloIteration
    ]_vars

\* Both workers are inside the read-only phase at once: one has finished
\* an iteration over a set with a hole, the other is in the middle of one.
C18_Witness ==
  /\ pc = "readonly"
  /\ wk[1].pc = "done"
  /\ Len(wk[1].out) >= 2
  /\ wk[2].pc = "incr"
  /\ \E i \in Indices : ~Occupied(i)
====
